---- MODULE Spec2Model ----
(***************************************************************************)
(* okama.common.make_asset_list.ListMaker                                  *)
(*                                                                         *)
(* The construction of a ListMaker (make_list, the inflation step, the     *)
(* user overrides of first_date/last_date, the period statistics) and the  *)
(* methods _validate_period and _add_inflation, as a state machine.        *)
(*                                                                         *)
(* Dates are month numbers: 0 is the Timestamp 2017-01-01, 1 is            *)
(* 2017-02-01, and so on.  A return is the rational n/d, kept as the       *)
(* record [n, d].  A pandas Series or DataFrame is the record              *)
(* [kind, index, columns], columns a sequence of [name, val], val a        *)
(* function of the index.  A dict is the sequence of its <<key, value>>    *)
(* items in insertion order.                                               *)
(***************************************************************************)
EXTENDS Integers, Sequences, FiniteSets, TLC

\* The last month any series of the data provider covers.
MaxDate == 13
\* The longest list of assets handed to the constructor.
MaxAssets == 2
\* The largest integer handed to _validate_period.
MaxPeriod == 2

_MONTHS_PER_YEAR == 12
DAYS_PER_YEAR == 365

Dates == 0..MaxDate

Max(a, b) == IF a >= b THEN a ELSE b
Min(a, b) == IF a <= b THEN a ELSE b

(***************************************************************************)
(* pandas                                                                  *)
(***************************************************************************)
Rat(n, d) == [n |-> n, d |-> d]

\* x + 1.0
PlusOne(x) == Rat(x.n + x.d, x.d)

\* x * y - 1.0
TimesMinusOne(x, y) == Rat(x.n * y.n - x.d * y.d, x.d * y.d)

Column(name, val) == [name |-> name, val |-> val]

Series(name, val) ==
    [kind |-> "Series", index |-> DOMAIN val, columns |-> <<Column(name, val)>>]

\* pd.DataFrame()
EmptyFrame == [kind |-> "DataFrame", index |-> {}, columns |-> <<>>]

Restrict(col, idx) == Column(col.name, [t \in idx |-> col.val[t]])

\* pd.concat([a, b], axis=1, join="inner")
ConcatInner(a, b) ==
    LET idx == a.index \cap b.index
        cols == a.columns \o b.columns
    IN  [kind |-> "DataFrame",
         index |-> idx,
         columns |-> [j \in 1..Len(cols) |-> Restrict(cols[j], idx)]]

\* df.iloc[:, j] (j counted from 1)
ILoc(df, j) == Series(df.columns[j].name, df.columns[j].val)

\* s.to_frame()
ToFrame(s) == [s EXCEPT !.kind = "DataFrame"]

\* df[lo:]
SliceFrom(df, lo) ==
    LET idx == {t \in df.index : t >= lo}
    IN  [df EXCEPT !.index = idx,
                   !.columns = [j \in 1..Len(df.columns) |-> Restrict(df.columns[j], idx)]]

\* df[lo:hi] taken with the lower end only.
SliceLowerOnly(df, lo, hi) == SliceFrom(df, lo)

\* df[lo:hi], both ends included
SliceRange(df, lo, hi) ==
    LET idx == {t \in df.index : lo <= t /\ t <= hi}
    IN  [df EXCEPT !.index = idx,
                   !.columns = [j \in 1..Len(df.columns) |-> Restrict(df.columns[j], idx)]]

\* Every column has a value in every row, and in no other.
NoMissingCells(df) ==
    \A j \in 1..Len(df.columns) : DOMAIN df.columns[j].val = df.index

(***************************************************************************)
(* dict and sorted                                                         *)
(***************************************************************************)
Keys(d) == {d[j][1] : j \in 1..Len(d)}
Values(d) == {d[j][2] : j \in 1..Len(d)}
Get(d, k) == d[CHOOSE j \in 1..Len(d) : d[j][1] = k][2]

\* d.update({k: v}): a key already present keeps its place.
DictUpdate(d, k, v) ==
    IF k \in Keys(d)
    THEN [j \in 1..Len(d) |-> IF d[j][1] = k THEN <<k, v>> ELSE d[j]]
    ELSE Append(d, <<k, v>>)

InsertByValue(s, x) ==
    LET p == Cardinality({j \in 1..Len(s) : s[j][2] <= x[2]})
    IN  SubSeq(s, 1, p) \o <<x>> \o SubSeq(s, p + 1, Len(s))

RECURSIVE Sorted(_)
\* sorted(d.items(), key=lambda y: y[1]): ascending and stable.
Sorted(items) ==
    IF items = <<>> THEN <<>>
    ELSE InsertByValue(Sorted(SubSeq(items, 1, Len(items) - 1)), items[Len(items)])

(***************************************************************************)
(* Timestamps                                                              *)
(***************************************************************************)
DaysBeforeMonth == <<0, 31, 59, 90, 120, 151, 181, 212, 243, 273, 304, 334>>

\* Days from 2017-01-01 to the first day of month d (2017..2019: no leap year).
Days(d) == DAYS_PER_YEAR * (d \div 12) + DaysBeforeMonth[(d % 12) + 1]

\* The "YYYY-MM" string of month d, as its fields <<YYYY, MM>>.
MonthString(d) == [kind |-> "str", y |-> 2017 + (d \div 12), m |-> (d % 12) + 1]
NoneArg == [kind |-> "None", y |-> 0, m |-> 0]
EmptyString == [kind |-> "str", y |-> 0, m |-> 0]

\* bool(arg): None and "" are falsy.
Truthy(arg) == arg.kind = "str" /\ arg.y # 0

\* pd.to_datetime("YYYY-MM")
to_datetime(arg) == (arg.y - 2017) * 12 + (arg.m - 1)

(***************************************************************************)
(* The data provider: okama.asset.Asset, okama.macro.Inflation             *)
(***************************************************************************)
AssetSymbols == {"SPY.US", "C.US", "D.XFRA", "E.XFRA"}
FxSymbols == {"EURUSD.FX", "USDEUR.FX"}
CurrencyCodes == {"USD", "EUR"}

\* Whether the provider resolves the symbol; it fails with not-found otherwise.
Known(symbol) == symbol \in AssetSymbols \cup FxSymbols

AssetCurrency(symbol) ==
    CASE symbol \in {"SPY.US", "C.US", "EURUSD.FX"} -> "USD"
      [] OTHER -> "EUR"

AssetFirstDate(symbol) ==
    CASE symbol \in {"SPY.US", "C.US", "E.XFRA", "USDEUR.FX"} -> 0
      [] symbol = "EURUSD.FX" -> 1
      [] OTHER -> MaxDate - 1

AssetLastDate(symbol) ==
    CASE symbol \in {"SPY.US", "D.XFRA", "E.XFRA", "EURUSD.FX"} -> MaxDate
      [] symbol = "USDEUR.FX" -> MaxDate - 1
      [] OTHER -> 1

AssetSeed(symbol) ==
    CASE symbol = "SPY.US" -> 0 [] symbol = "C.US" -> 2
      [] symbol = "D.XFRA" -> 3 [] symbol = "E.XFRA" -> 4
      [] symbol = "EURUSD.FX" -> 1 [] OTHER -> 3

\* The monthly returns of a symbol over the months idx, in tenths.
RorOver(symbol, idx) ==
    Series(symbol, [t \in idx |-> Rat(((t + AssetSeed(symbol)) % 5) - 2, 10)])

\* Asset(symbol): the handle of a symbol the provider knows.
Asset(symbol) ==
    [symbol |-> symbol,
     name |-> symbol,
     currency |-> AssetCurrency(symbol),
     first_date |-> AssetFirstDate(symbol),
     last_date |-> AssetLastDate(symbol),
     ror |-> RorOver(symbol, AssetFirstDate(symbol)..AssetLastDate(symbol))]

\* An object handed over in place of a symbol: it has `symbol` and `ror`.
\* Its series has no row for month 2.
CustomHandle ==
    [symbol |-> "H.CUSTOM",
     name |-> "H.CUSTOM",
     currency |-> "USD",
     first_date |-> 0,
     last_date |-> MaxDate,
     ror |-> RorOver("H.CUSTOM", Dates \ {2})]

DisplayName(code) == IF code = "USD" THEN "US Dollar" ELSE "Euro"

ListingSpans == {<<0, MaxDate>>, <<1, MaxDate - 1>>}

\* Asset(symbol=f"{ccy}.FX"): the handles the provider may give for the base
\* currency.  `name` is a display name; `currency` is the code.
CurrencyHandles(code) ==
    {[symbol |-> code \o ".FX", name |-> nm, currency |-> code,
      first_date |-> sp[1], last_date |-> sp[2]] :
        nm \in {code, DisplayName(code)}, sp \in ListingSpans}
        \ {[symbol |-> code \o ".FX", name |-> DisplayName(code), currency |-> code,
            first_date |-> 1, last_date |-> MaxDate - 1]}

\* Inflation(symbol, first_date, last_date) of a series available over avail.
Inflation(symbol, avail, first, last) ==
    [symbol |-> symbol,
     first_date |-> avail[1],
     last_date |-> avail[2],
     values_ts |-> RorOver(symbol, {t \in avail[1]..avail[2] : first <= t /\ t <= last})]

(***************************************************************************)
(* okama.common.validators.validate_integer                                *)
(***************************************************************************)
IntArg(v) == [kind |-> "int", v |-> v]
FloatArg == [kind |-> "float", v |-> 0]

\* validate_integer(name, value, min_value=0, inclusive=False) raises
ValidateIntegerRaises(value, min_value) ==
    value.kind # "int" \/ value.v <= min_value

(***************************************************************************)
(* ListMaker                                                               *)
(***************************************************************************)
VARIABLES
    assets,                 \* the argument `assets` (self._assets)
    arg_first_date,         \* the argument `first_date`
    arg_last_date,          \* the argument `last_date`
    arg_inflation,          \* the argument `inflation`
    currency_h,             \* self._currency
    infl_avail,             \* the months the provider has inflation data for
    pc,                     \* the place in __init__
    ls, i, df,              \* make_list: its argument, loop counter, table
    first_dates, last_dates, currencies_acc,   \* make_list: its dicts
    first_date, last_date, newest_asset, eldest_asset,
    currencies, assets_first_dates, assets_last_dates, assets_ror,
    inflation,              \* self.inflation, "None" while the attribute is not set
    inflation_ts, inflation_first_date, inflation_last_date,
    period_length,          \* self.period_length, in tenths of a year
    pl,                     \* self.pl
    requested,              \* the symbols asked of the provider, in order
    result                  \* what the last method call returned or raised

args == <<assets, arg_first_date, arg_last_date, arg_inflation, currency_h, infl_avail>>
locals == <<ls, i, df, first_dates, last_dates, currencies_acc>>
bounds_fields == <<first_date, last_date>>
list_fields == <<newest_asset, eldest_asset, currencies, assets_first_dates,
                 assets_last_dates>>
inflation_fields == <<inflation, inflation_ts, inflation_first_date, inflation_last_date>>
period_fields == <<period_length, pl>>
fields == <<bounds_fields, list_fields, assets_ror, inflation_fields, period_fields>>
vars == <<args, locals, fields, pc, requested, result>>

default_ticker == "SPY.US"

SymbolItem(s) == [kind |-> "symbol", symbol |-> s]
HandleItem == [kind |-> "handle", symbol |-> "H.CUSTOM"]
Items == {SymbolItem(s) : s \in AssetSymbols} \cup {HandleItem}

ItemLists == UNION {[1..n -> Items] : n \in 0..MaxAssets}

AssetsArgs ==
    {[kind |-> "None", items |-> <<>>], [kind |-> "str", items |-> <<>>]}
        \cup {[kind |-> "list", items |-> l] : l \in ItemLists}

FirstDateArgs == {NoneArg, EmptyString, MonthString(1), MonthString(MaxDate - 1)}
LastDateArgs == {NoneArg, MonthString(1), MonthString(MaxDate - 1)}

NoResult ==
    [op |-> "None", arg |-> FloatArg, raised |-> "None",
     message |-> [value |-> FloatArg, range |-> 0], table |-> EmptyFrame]

\* The call ListMaker(assets, first_date=, last_date=, ccy=, inflation=) is
\* entered; self._assets and self._currency are set.
Init ==
    /\ assets \in AssetsArgs
    /\ arg_first_date \in FirstDateArgs
    /\ arg_last_date \in LastDateArgs
    /\ arg_inflation \in BOOLEAN
    /\ \E ccy \in CurrencyCodes : currency_h \in CurrencyHandles(ccy)
    /\ infl_avail \in IF arg_inflation THEN ListingSpans ELSE {<<0, 0>>}
    /\ pc = "make_list"
    /\ ls = <<>> /\ i = 0 /\ df = EmptyFrame
    /\ first_dates = <<>> /\ last_dates = <<>> /\ currencies_acc = <<>>
    /\ first_date = 0 /\ last_date = 0
    /\ newest_asset = "None" /\ eldest_asset = "None"
    /\ currencies = <<>> /\ assets_first_dates = <<>> /\ assets_last_dates = <<>>
    /\ assets_ror = EmptyFrame
    /\ inflation = "None" /\ inflation_ts = EmptyFrame
    /\ inflation_first_date = 0 /\ inflation_last_date = 0
    /\ period_length = 0 /\ pl = [years |-> 0, months |-> 0]
    /\ requested = <<currency_h.symbol>>
    /\ result = NoResult

\* The property `currency`.
currency == currency_h.currency

\* The property `assets`, where it does not raise.
assets_property ==
    IF assets.kind = "None" \/ assets.items = <<>>
    THEN <<SymbolItem(default_ticker)>>
    ELSE assets.items

\* The symbol set_currency asks the provider for.
FxPair(asset_currency, list_currency) == asset_currency \o list_currency \o ".FX"

\* set_currency that keeps the asset's dates (a left join on the asset).
set_currency_keep_index(returns, asset_currency, list_currency) == returns

set_currency(returns, asset_currency, list_currency) ==
    LET fx == Asset(FxPair(asset_currency, list_currency))
        asset_mult == [t \in returns.index |-> PlusOne(returns.columns[1].val[t])]
        currency_mult == [t \in fx.ror.index |-> PlusOne(fx.ror.columns[1].val[t])]
        joined == ConcatInner(Series(returns.columns[1].name, asset_mult),
                              Series(fx.ror.columns[1].name, currency_mult))
        c == ILoc(joined, Len(joined.columns))
        a == ILoc(joined, 1)
        x == [t \in a.index |-> TimesMinusOne(a.columns[1].val[t], c.columns[1].val[t])]
    IN  Series(returns.columns[1].name, x)

\* The handle make_list works on for the list entry x.
HandleOf(x) == IF x.kind = "handle" THEN CustomHandle ELSE Asset(x.symbol)

\* pd.concat([df, new], axis=1, join="outer"): the rows of either table, with
\* no value in a column whose series has no such row.
JoinOuter(table, new) ==
    [kind |-> "DataFrame",
     index |-> table.index \cup new.index,
     columns |-> table.columns \o new.columns]

\* df = pd.concat([df, new], axis=1, join="inner", copy="false")
Join(table, new) == ConcatInner(table, new)

\* Whether make_ror converts the asset's returns.
NeedsConversion(asset, currency_name) == asset.currency # currency_name

make_ror(asset, currency_name) ==
    IF ~NeedsConversion(asset, currency_name)
    THEN asset.ror
    ELSE set_currency(asset.ror, asset.currency, currency_name)

Raise ==
    /\ pc' = "raised"
    /\ UNCHANGED <<args, locals, fields, result>>

\* make_list is called: self.assets is read and the accumulators are set up.
MakeListEnter ==
    /\ pc = "make_list"
    /\ IF assets.kind = "str"
       THEN Raise /\ UNCHANGED requested
       ELSE /\ pc' = "loop"
            /\ ls' = assets_property
            /\ i' = 0
            /\ df' = EmptyFrame
            /\ first_dates' = <<>> /\ last_dates' = <<>> /\ currencies_acc' = <<>>
            /\ UNCHANGED <<args, fields, requested, result>>

\* One turn of the loop of make_list.
MakeListLoop ==
    /\ pc = "loop"
    /\ i < Len(ls)
    /\ LET x == ls[i + 1]
           currency_name == currency_h.name
       IN  IF x.kind = "symbol" /\ ~Known(x.symbol)
           THEN Raise /\ requested' = Append(requested, x.symbol)
           ELSE LET asset == HandleOf(x)
                    asked == IF x.kind = "handle" THEN requested
                             ELSE Append(requested, x.symbol)
                    pair == FxPair(asset.currency, currency_name)
                IN  IF NeedsConversion(asset, currency_name) /\ ~Known(pair)
                    THEN Raise /\ requested' = Append(asked, pair)
                    ELSE /\ requested' = IF NeedsConversion(asset, currency_name)
                                         THEN Append(asked, pair) ELSE asked
                         /\ df' = IF i = 0
                                  THEN make_ror(asset, currency_name)
                                  ELSE Join(df, make_ror(asset, currency_name))
                         /\ currencies_acc' = DictUpdate(currencies_acc, asset.symbol, asset.currency)
                         /\ first_dates' = DictUpdate(first_dates, asset.symbol, asset.first_date)
                         /\ last_dates' = DictUpdate(last_dates, asset.symbol, asset.last_date)
                         /\ i' = i + 1
                         /\ UNCHANGED <<args, ls, fields, pc, result>>

\* make_list taking the head of the sorted first dates.
make_list_first_date_head(first_dates_sorted) == first_dates_sorted[1][2]

\* The first date make_list returns.
make_list_first_date(first_dates_sorted) == first_dates_sorted[Len(first_dates_sorted)][2]
\* The last date make_list returns.
make_list_last_date(last_dates_sorted) == last_dates_sorted[1][2]
make_list_newest_asset(first_dates_sorted) == first_dates_sorted[Len(first_dates_sorted)][1]
make_list_eldest_asset(first_dates_sorted) == first_dates_sorted[1][1]

\* The end of make_list, and the assignment of what it returns.
MakeListReturn ==
    /\ pc = "loop"
    /\ i = Len(ls)
    /\ LET currency_name == currency_h.name
           fd == DictUpdate(first_dates, currency_name, currency_h.first_date)
           ld == DictUpdate(last_dates, currency_name, currency_h.last_date)
           cs == DictUpdate(currencies_acc, "asset list", currency_name)
           first_dates_sorted == Sorted(fd)
           last_dates_sorted == Sorted(ld)
       IN  /\ first_dates' = fd
           /\ last_dates' = ld
           /\ currencies_acc' = cs
           /\ df' = IF df.kind = "Series" THEN ToFrame(df) ELSE df
           /\ first_date' = make_list_first_date(first_dates_sorted)
           /\ last_date' = make_list_last_date(last_dates_sorted)
           /\ newest_asset' = make_list_newest_asset(first_dates_sorted)
           /\ eldest_asset' = make_list_eldest_asset(first_dates_sorted)
           /\ currencies' = cs
           /\ assets_first_dates' = first_dates_sorted
           /\ assets_last_dates' = last_dates_sorted
           /\ assets_ror' = df'
    /\ pc' = "inflation"
    /\ UNCHANGED <<args, ls, i, inflation_fields, period_fields, requested, result>>

\* first_date once the inflation series is taken in.
InflationFirstDate(first, infl_first) == Max(first, infl_first)
\* last_date once the inflation series is taken in.
InflationLastDate(last, infl_last) == Min(last, infl_last)

\* if inflation: ...
InflationStep ==
    /\ pc = "inflation"
    /\ IF arg_inflation
       THEN LET symbol == currency_h.currency \o ".INFL"
                inst == Inflation(symbol, infl_avail, first_date, last_date)
            IN  /\ inflation' = symbol
                /\ inflation_ts' = inst.values_ts
                /\ inflation_first_date' = inst.first_date
                /\ inflation_last_date' = inst.last_date
                /\ first_date' = InflationFirstDate(first_date, inst.first_date)
                /\ last_date' = InflationLastDate(last_date, inst.last_date)
                /\ assets_first_dates' = DictUpdate(assets_first_dates, symbol, inst.first_date)
                /\ assets_last_dates' = DictUpdate(assets_last_dates, symbol, inst.last_date)
                /\ requested' = Append(requested, symbol)
                /\ UNCHANGED <<newest_asset, eldest_asset, currencies>>
       ELSE UNCHANGED <<bounds_fields, list_fields, inflation_fields, requested>>
    /\ pc' = "overrides"
    /\ UNCHANGED <<args, locals, assets_ror, period_fields, result>>

\* first_date replaced by the first_date argument.
OverrideFirstDateTaken(first, arg) ==
    IF Truthy(arg) THEN to_datetime(arg) ELSE first

\* first_date under a first_date argument.
OverrideFirstDate(first, arg) ==
    IF Truthy(arg) THEN Max(first, to_datetime(arg)) ELSE first
\* last_date under a last_date argument.
OverrideLastDate(last, arg) ==
    IF Truthy(arg) THEN Min(last, to_datetime(arg)) ELSE last

\* The first_date and last_date arguments, and the two slices.
Overrides ==
    /\ pc = "overrides"
    /\ first_date' = OverrideFirstDate(first_date, arg_first_date)
    /\ last_date' = OverrideLastDate(last_date, arg_last_date)
    /\ assets_ror' = SliceRange(SliceFrom(assets_ror, first_date'), first_date', last_date')
    /\ pc' = "period"
    /\ UNCHANGED <<args, locals, list_fields, inflation_fields, period_fields,
                   requested, result>>

\* round((last - first) / np.timedelta64(365, "D"), ndigits=1), in tenths.
PeriodLengthTenths(first, last) ==
    ((Days(last) - Days(first)) * 20 + DAYS_PER_YEAR) \div (2 * DAYS_PER_YEAR)

\* PeriodLength(rows // _MONTHS_PER_YEAR, rows % _MONTHS_PER_YEAR)
PeriodLength(rows) ==
    [years |-> rows \div _MONTHS_PER_YEAR, months |-> rows % _MONTHS_PER_YEAR]

\* self.period_length and self.pl; the constructor returns.
PeriodStats ==
    /\ pc = "period"
    /\ period_length' = PeriodLengthTenths(first_date, last_date)
    /\ pl' = PeriodLength(Cardinality(assets_ror.index))
    /\ pc' = "done"
    /\ UNCHANGED <<args, locals, bounds_fields, list_fields, assets_ror,
                   inflation_fields, requested, result>>

PeriodArgs == {IntArg(v) : v \in 0..MaxPeriod} \cup {FloatArg}

\* The number the message of _validate_period gives as the data range, in tenths.
ValidatePeriodRange == period_length

\* _validate_period(period)
ValidatePeriod(period) ==
    /\ pc = "done"
    /\ result' =
         [NoResult EXCEPT
            !.op = "_validate_period",
            !.arg = period,
            !.raised = IF ValidateIntegerRaises(period, 0) THEN "validate_integer"
                       ELSE IF period.v > pl.years THEN "ValueError"
                       ELSE "None",
            !.message = IF ~ValidateIntegerRaises(period, 0) /\ period.v > pl.years
                        THEN [value |-> period, range |-> ValidatePeriodRange]
                        ELSE NoResult.message]
    /\ UNCHANGED <<args, locals, fields, pc, requested>>

\* What _add_inflation returns.
add_inflation ==
    IF inflation # "None" THEN ConcatInner(assets_ror, inflation_ts) ELSE assets_ror

\* _add_inflation()
AddInflation ==
    /\ pc = "done"
    /\ result' = [NoResult EXCEPT !.op = "_add_inflation", !.table = add_inflation]
    /\ UNCHANGED <<args, locals, fields, pc, requested>>

Next ==
    \/ MakeListEnter
    \/ MakeListLoop
    \/ MakeListReturn
    \/ InflationStep
    \/ Overrides
    \/ PeriodStats
    \/ \E period \in PeriodArgs : ValidatePeriod(period)
    \/ AddInflation

Spec == Init /\ [][Next]_vars

(***************************************************************************)
(* Properties                                                              *)
(***************************************************************************)
Constructed == pc = "done"

\* No first_date and no last_date was supplied.
NoOverrides ==
    /\ arg_first_date \in {NoneArg, EmptyString}
    /\ arg_last_date \in {NoneArg, EmptyString}

\* The month a "YYYY-MM" string names.
RequestedMonth(arg) == CHOOSE d \in Dates : MonthString(d) = arg

\* The symbols of the assets of the list.
InputSymbols == {ls[k].symbol : k \in 1..Len(ls)}

InflationSymbols == {c \o ".INFL" : c \in CurrencyCodes}

\* The keys the date maps are to hold.
ExpectedKeys ==
    InputSymbols \cup {currency_h.name}
        \cup (IF arg_inflation THEN {currency_h.currency \o ".INFL"} ELSE {})

\* C1: after a construction with no first_date/last_date argument,
\* first_date is the maximum of the values of assets_first_dates and
\* last_date the minimum of the values of assets_last_dates, and these maps
\* hold one entry per input asset, one for the base currency and, with
\* inflation enabled, one for the inflation series.
C1_BoundsAreExtremes ==
    (Constructed /\ NoOverrides) =>
        /\ Keys(assets_first_dates) = ExpectedKeys
        /\ Keys(assets_last_dates) = ExpectedKeys
        /\ Len(assets_first_dates) = Cardinality(ExpectedKeys)
        /\ Len(assets_last_dates) = Cardinality(ExpectedKeys)
        /\ \A v \in Values(assets_first_dates) : v <= first_date
        /\ first_date \in Values(assets_first_dates)
        /\ \A v \in Values(assets_last_dates) : last_date <= v
        /\ last_date \in Values(assets_last_dates)

\* Two assets, inflation enabled, and the bounds come from different entries:
\* the start from an asset, the end from the inflation series.
C1_Witness ==
    /\ Constructed /\ NoOverrides
    /\ Len(ls) = 2 /\ inflation # "None"
    /\ first_date = MaxDate - 1
    /\ last_date = inflation_last_date
    /\ last_date < Get(assets_last_dates, currency_h.name)
    /\ Get(assets_first_dates, inflation) < first_date

\* C2: the first_date and last_date arguments only tighten the bounds: the
\* resulting first_date is the larger of the computed first_date and the
\* requested one, the resulting last_date the smaller of the computed
\* last_date and the requested one; an argument not supplied leaves its bound
\* as computed, a request on the loose side of the computed bound leaves it
\* as computed too, and no error is raised.
C2_OverridesTighten ==
    [][/\ pc = "overrides" =>
            /\ pc' = "period"
            /\ IF arg_first_date.kind = "str" /\ arg_first_date # EmptyString
               THEN /\ first_date' >= first_date
                    /\ first_date' >= RequestedMonth(arg_first_date)
                    /\ first_date' \in {first_date, RequestedMonth(arg_first_date)}
                    /\ RequestedMonth(arg_first_date) <= first_date => first_date' = first_date
               ELSE first_date' = first_date
            /\ IF arg_last_date.kind = "str" /\ arg_last_date # EmptyString
               THEN /\ last_date' <= last_date
                    /\ last_date' <= RequestedMonth(arg_last_date)
                    /\ last_date' \in {last_date, RequestedMonth(arg_last_date)}
                    /\ RequestedMonth(arg_last_date) >= last_date => last_date' = last_date
               ELSE last_date' = last_date
       /\ pc = "period" =>
            /\ pc' = "done"
            /\ first_date' = first_date /\ last_date' = last_date]_vars

\* Both arguments supplied; the requested first_date lies before the computed
\* one and is ignored, the requested last_date lies before the computed one
\* and is taken.
C2_Witness ==
    /\ Constructed
    /\ arg_first_date = MonthString(1) /\ arg_last_date = MonthString(MaxDate - 1)
    /\ first_date = MaxDate - 1 /\ first_date > 1
    /\ last_date = MaxDate - 1
    /\ \A v \in Values(assets_last_dates) : v = MaxDate

\* C3: a construction that completes has first_date <= last_date (an
\* inverted range is rejected with an error).
C3_RangeNotInverted == Constructed => first_date <= last_date

\* C4: a construction that completes has a table with at least one row
\* (assets with no common period make the construction fail).  Stated for
\* the constructions with no first_date/last_date argument.
C4_TableNotEmpty == (Constructed /\ NoOverrides) => assets_ror.index # {}

\* The index of the returns of list entry k in the base currency, from the
\* provider's series.
NormalizedIndex(k) ==
    LET h == HandleOf(ls[k])
    IN  IF h.currency = currency_h.name THEN h.ror.index
        ELSE h.ror.index \cap Asset(h.currency \o currency_h.name \o ".FX").ror.index

C5_State ==
    (pc \in {"loop", "inflation", "overrides", "period", "done"} /\ i >= 1) =>
        /\ df.index = {t \in Dates : \A k \in 1..i : t \in NormalizedIndex(k)}
        /\ Len(df.columns) = i
        /\ NoMissingCells(df)

C5_Step ==
    (pc = "loop" /\ pc' = "loop" /\ i >= 1) => df'.index \subseteq df.index

\* C5: in make_list the index of the table after the join of the k-th asset is
\* a subset of the index before it; the index after all joins is the
\* intersection of the indices of the (converted where needed) return series
\* of the assets, and every row has a value in every column.
C5_JoinsShrink == [][C5_Step]_vars /\ []C5_State

\* Two assets joined, and the second join removed rows.
C5_Witness ==
    /\ pc = "loop" /\ i = 2
    /\ df.index # {}
    /\ df.index # NormalizedIndex(1)
    /\ df.index # NormalizedIndex(2)

\* A symbol asked of the provider that is no asset and no inflation series.
IsFxRequest(symbol) ==
    symbol \notin AssetSymbols \cup InflationSymbols

\* C6: for assets whose currency equals the base currency (the code the
\* property `currency` gives) no FX pair is asked of the provider: an FX pair
\* is asked for only when some asset's currency differs from the base
\* currency.
C6_NoFxForBaseCurrency ==
    (\A k \in 1..Len(ls) :
        (ls[k].kind = "handle" \/ Known(ls[k].symbol))
            => HandleOf(ls[k]).currency = currency)
        => \A j \in 2..Len(requested) : ~IsFxRequest(requested[j])

\* C7: _validate_period accepts a period exactly if it is an integer, positive
\* and not above the whole years of history (rows of the table // 12), and
\* the error of a period above them names the period and that number of whole
\* years.
C7_ValidatePeriod ==
    result.op = "_validate_period" =>
        /\ (result.raised = "None") <=>
               /\ result.arg.kind = "int"
               /\ result.arg.v > 0
               /\ result.arg.v * 12 <= Cardinality(assets_ror.index)
        /\ (result.raised = "ValueError") =>
               /\ result.message.value = result.arg
               /\ result.message.range = 10 * (Cardinality(assets_ror.index) \div 12)

\* C8: after a construction with no first_date/last_date argument,
\* newest_asset is a key of assets_first_dates with the latest first date, so
\* that assets_first_dates[newest_asset] = first_date, and eldest_asset is a
\* key with the earliest first date, over all the entries of the map.
C8_NewestAndEldest ==
    (Constructed /\ NoOverrides) =>
        /\ newest_asset \in Keys(assets_first_dates)
        /\ eldest_asset \in Keys(assets_first_dates)
        /\ Get(assets_first_dates, newest_asset) = first_date
        /\ \A v \in Values(assets_first_dates) :
               /\ v <= Get(assets_first_dates, newest_asset)
               /\ Get(assets_first_dates, eldest_asset) <= v

\* (1 + r) * (1 + fx) - 1 = x, for rationals
IsConverted(x, r, fx) ==
    x.n * (r.d * fx.d) = ((r.n + r.d) * (fx.n + fx.d) - r.d * fx.d) * x.d

\* The FX symbol of asset currency a and list currency b.
PairSymbol(a, b) ==
    CASE a = "EUR" /\ b = "USD" -> "EURUSD.FX"
      [] a = "USD" /\ b = "EUR" -> "USDEUR.FX"
      [] OTHER -> "no such pair"

\* C9: set_currency asks for the pair "{A}{B}.FX" and returns a series over
\* the dates both the asset's series and the FX series have, with the value
\* (1 + r[t]) * (1 + fx[t]) - 1 at each and with the name of the asset's
\* series.  Read in the table of make_list: after the first asset the table
\* is that series; later joins keep its values.
C9_SetCurrency ==
    (pc = "loop" /\ i >= 1) =>
        \A k \in 1..i :
            LET h == HandleOf(ls[k])
                pair == PairSymbol(h.currency, currency_h.name)
                r == h.ror.columns[1].val
            IN  h.currency # currency_h.name =>
                  /\ \E j \in 2..Len(requested) : requested[j] = pair
                  /\ \A j \in 2..Len(requested) :
                        IsFxRequest(requested[j]) => requested[j] \in FxSymbols
                  /\ df.index \subseteq DOMAIN r \cap Asset(pair).ror.index
                  /\ i = 1 => df.index = DOMAIN r \cap Asset(pair).ror.index
                  /\ df.columns[k].name = h.ror.columns[1].name
                  /\ \A t \in df.index :
                        IsConverted(df.columns[k].val[t], r[t],
                                    Asset(pair).ror.columns[1].val[t])

\* The first asset was converted, which took a date from its series and
\* changed a value.
C9_Witness ==
    /\ pc = "loop" /\ i = 1
    /\ HandleOf(ls[1]).currency = "EUR" /\ currency_h.name = "USD"
    /\ requested[Len(requested)] = "EURUSD.FX"
    /\ df.index # HandleOf(ls[1]).ror.index
    /\ \E t \in df.index : df.columns[1].val[t] # HandleOf(ls[1]).ror.columns[1].val[t]

\* C10: after construction assets_ror is the joined table cut to
\* [first_date, last_date], with no row outside it and no missing cell, and
\* the table _add_inflation returns has an index within that of assets_ror
\* and no missing cell, and is assets_ror when inflation is disabled.
C10_TablesWithinWindow ==
    Constructed =>
        /\ assets_ror.index = {t \in df.index : first_date <= t /\ t <= last_date}
        /\ Len(assets_ror.columns) = Len(df.columns)
        /\ \A j \in 1..Len(df.columns) :
              /\ DOMAIN assets_ror.columns[j].val = assets_ror.index
              /\ \A t \in assets_ror.index :
                    assets_ror.columns[j].val[t] = df.columns[j].val[t]
        /\ result.op = "_add_inflation" =>
              /\ result.table.index \subseteq assets_ror.index
              /\ NoMissingCells(result.table)
              /\ Len(result.table.columns) =
                    Len(assets_ror.columns) + (IF arg_inflation THEN 1 ELSE 0)
              /\ ~arg_inflation => result.table = assets_ror

\* Both arguments cut rows off the joined table, rows are left, and
\* _add_inflation returned the table with the inflation column.
C10_Witness ==
    /\ Constructed
    /\ Truthy(arg_first_date) /\ Truthy(arg_last_date)
    /\ result.op = "_add_inflation" /\ arg_inflation
    /\ assets_ror.index # {}
    /\ \E t \in df.index : t < first_date
    /\ \E t \in df.index : t > last_date
    /\ Len(result.table.columns) = 3

====
